---- MODULE Spec2Model ----
(***************************************************************************)
(* Model of src/dashboard.py: the plotting routine plot_phase_data and the *)
(* module-level driver that calls it once per phase file and then writes   *)
(* one image.                                                              *)
(*                                                                         *)
(* Units.  Every real number of the program (line widths, opacities, axis  *)
(* limits, generation indices when used as axis coordinates, repulsion     *)
(* factors) is kept as an integer number of hundredths: 0.3 is 30, 1.1 is  *)
(* 110, generation 2 as an X coordinate is 200.                            *)
(*                                                                         *)
(* Strings that the program only passes through (labels, titles, file      *)
(* names) are TLA+ strings.  The Evento cells, which the program searches  *)
(* for a substring, are sequences of one-character strings; the empty      *)
(* sequence is the empty CSV cell, which pandas.read_csv reads as NaN.     *)
(*                                                                         *)
(* Of the numeric columns only Geracao and FatorRepulsao carry values in   *)
(* the model; for the others only their presence in the header is kept,    *)
(* because the program never branches on their values.                     *)
(***************************************************************************)
EXTENDS Integers, Sequences, FiniteSets, TLC

\* ---------------------------------------------------------------- bounds

\* Longest file of the exhaustively enumerated family (rows).
MaxRows == 3

\* The long files have ResetThreshold - 1 .. ResetThreshold + MaxOver rows.
MaxOver == 1

\* ------------------------------------------------------ program constants

\* `len(resets) > 50`
ResetThreshold == 50

\* `lw, alp = 0.5, 0.3`
LwThin == 50
AlphaThin == 30

\* `lw, alp = 1.0, 0.6`
LwStrong == 100
AlphaStrong == 60

\* `ax3_r.set_ylim(0, 1.1)`
RepYBottom == 0
RepYTop == 110

\* `ax3.set_xlim(left=1, ...)` and `ax3.set_xlim(left=0, ...)`
LogLeft == 100
LinearLeft == 0

\* 'RESET' in `str.contains('RESET', na=False)`
ResetPattern == <<"R", "E", "S", "E", "T">>

\* The columns the routine reads with df[...].
ExpectedColumns ==
    {"Geracao", "MelhorFitness", "FitnessMedio", "DesvioPadraoFit",
     "DiversidadeGenetica", "TaxaMutacao", "FatorRepulsao", "Evento"}

\* The two file names and column titles the driver passes.
PhaseFile(c) == IF c = 1 THEN "fase1.csv" ELSE "fase2.csv"

PhaseTitle(c) ==
    IF c = 1 THEN "FASE 1: Design (Geometria)" ELSE "FASE 2: Estrategia (3000km)"

\* ------------------------------------------------------------ small helpers

Min2(a, b) == IF a <= b THEN a ELSE b

Max2(a, b) == IF a >= b THEN a ELSE b

Abs(a) == IF a < 0 THEN -a ELSE a

\* A generation index as an X coordinate (hundredths).
X(g) == g * 100

\* The values of a sequence.
Range(s) == {s[i] : i \in 1..Len(s)}

\* (mutant of SeqMax) the first element instead of the largest.
SeqMaxTakesFirst(s) == s[1]

\* Python's max() / min() over a non-empty sequence of numbers.
SeqMax(s) == CHOOSE v \in Range(s) : \A w \in Range(s) : v >= w

SeqMin(s) == CHOOSE v \in Range(s) : \A w \in Range(s) : v <= w

\* The subsequence of s whose positions satisfy the boolean mask, in order.
Filter(s, mask) ==
    LET keep == {i \in 1..Len(s) : mask[i]}
        nth(k) == CHOOSE i \in keep : Cardinality({j \in keep : j <= i}) = k
    IN [k \in 1..Cardinality(keep) |-> s[nth(k)]]

\* ------------------------------------------------------------- input files

\* What os.path.exists / pd.read_csv find under a phase file name:
\*   kind "missing"      no such path
\*   kind "unparseable"  the path exists and pd.read_csv raises
\*   kind "parsed"       pd.read_csv returns a frame with header `cols` and
\*                       the rows `rows`
MissingFile == [kind |-> "missing", cols |-> {}, rows |-> <<>>]

UnparseableFile == [kind |-> "unparseable", cols |-> {}, rows |-> <<>>]

ParsedFile(cols, rows) == [kind |-> "parsed", cols |-> cols, rows |-> rows]

\* Evento cells: empty (NaN), a tag holding RESET inside a longer string,
\* and a tag that shares a prefix with RESET without containing it.
NullCell == <<>>

ResetCell == <<"H", "_", "R", "E", "S", "E", "T">>

OtherCell == <<"R", "E", "S", "E", "R", "V", "A">>

EventoCells == {NullCell, ResetCell, OtherCell}

\* FatorRepulsao of generation g; the values leave [0, 1] on both sides.
RepulsaoOf(g) == <<-30, 40, 150>>[(g % 3) + 1]

\* Rows of consecutive generations start, start+1, ... tagged by evs.
RowsOf(start, evs) ==
    [i \in 1..Len(evs) |->
        [Geracao |-> start + i - 1,
         Evento |-> evs[i],
         FatorRepulsao |-> RepulsaoOf(start + i - 1)]]

StartGens == {0, 1}

ShortFiles ==
    {ParsedFile(ExpectedColumns, RowsOf(s, evs)) :
        s \in StartGens, evs \in UNION {[1..n -> EventoCells] : n \in 0..MaxRows}}

\* Long files: generations 1..n, every row RESET, or every row but the first.
LongEvents(n, firstNull) ==
    [i \in 1..n |-> IF firstNull /\ i = 1 THEN NullCell ELSE ResetCell]

LongFiles ==
    {ParsedFile(ExpectedColumns, RowsOf(1, LongEvents(n, b))) :
        n \in (ResetThreshold - 1)..(ResetThreshold + MaxOver), b \in BOOLEAN}

\* Files that parse but lack one expected column.
SchemaViolatingFiles ==
    {ParsedFile(ExpectedColumns \ {c}, RowsOf(1, <<ResetCell, NullCell>>)) :
        c \in ExpectedColumns}

Files ==
    {MissingFile, UnparseableFile} \cup ShortFiles \cup LongFiles
        \cup SchemaViolatingFiles

\* One file of each kind.  The two calls touch disjoint columns and meet only
\* in the driver's control flow, so a run pairs any file for one phase with
\* one of these for the other.
CompanionFiles ==
    {MissingFile, UnparseableFile,
     ParsedFile(ExpectedColumns, RowsOf(1, <<ResetCell, OtherCell>>)),
     ParsedFile(ExpectedColumns \ {"TaxaMutacao"}, RowsOf(1, <<ResetCell, NullCell>>))}

FilePairs ==
    {<<a, b>> : a \in CompanionFiles, b \in Files}
        \cup {<<a, b>> : a \in Files, b \in CompanionFiles}

\* --------------------------------------------------------- pandas operations

\* df['Geracao'] as a sequence.
Geracao(df) == [i \in 1..Len(df.rows) |-> df.rows[i].Geracao]

FatorRepulsao(df) == [i \in 1..Len(df.rows) |-> df.rows[i].FatorRepulsao]

IsNa(cell) == cell = NullCell

\* Python's `pat in s`.
Contains(s, pat) ==
    \E i \in 1..(Len(s) - Len(pat) + 1) : SubSeq(s, i, i + Len(pat) - 1) = pat

\* Whether df['Evento'].str is available.  read_csv gives a column whose
\* cells are all empty the dtype float64, and Series.str raises
\* AttributeError on it; a frame with no rows has object columns, on which
\* .str works.
StrAccessorOk(df) ==
    \/ Len(df.rows) = 0
    \/ \E i \in 1..Len(df.rows) : ~IsNa(df.rows[i].Evento)

\* df['Evento'].str.contains('RESET', na=False) as a boolean mask.
ResetMask(df) ==
    [i \in 1..Len(df.rows) |->
        IF IsNa(df.rows[i].Evento) THEN FALSE
        ELSE Contains(df.rows[i].Evento, ResetPattern)]

\* resets = df[mask]['Geracao']
Resets(df) == Filter(Geracao(df), ResetMask(df))

\* ------------------------------------------------------ matplotlib surfaces

\* Data limits of one axis direction: has = something was plotted, lo/hi its
\* interval, minpos the smallest positive value (0: none).
NoData == [has |-> FALSE, lo |-> 0, hi |-> 0, minpos |-> 0]

\* Data limits d widened by the values of the sequence s.
ExtendData(d, s) ==
    IF Len(s) = 0 THEN d
    ELSE LET pos == {v \in {s[i] : i \in 1..Len(s)} : v > 0}
             mp == IF pos = {} THEN 0 ELSE CHOOSE v \in pos : \A w \in pos : v <= w
         IN [has |-> TRUE,
             lo |-> IF d.has THEN Min2(d.lo, SeqMin(s)) ELSE SeqMin(s),
             hi |-> IF d.has THEN Max2(d.hi, SeqMax(s)) ELSE SeqMax(s),
             minpos |-> IF d.minpos = 0 THEN mp
                        ELSE IF mp = 0 THEN d.minpos ELSE Min2(d.minpos, mp)]

\* One Axes object as plt.subplots creates it.  exists is FALSE only for the
\* slot of the twin axis before ax3.twinx() is called.  While xauto (yauto)
\* holds, the visible range follows the data and xlim (ylim) is not read.
BlankAxis ==
    [exists |-> TRUE, texts |-> <<>>, lines |-> <<>>, fills |-> <<>>,
     vlines |-> <<>>, title |-> "", xlabel |-> "", ylabel |-> "",
     legend |-> <<>>, grid |-> FALSE,
     xscale |-> "linear", xauto |-> TRUE, xlim |-> <<0, 100>>, xdata |-> NoData,
     yauto |-> TRUE, ylim |-> <<0, 100>>, ydata |-> NoData]

NoAxis == [BlankAxis EXCEPT !.exists = FALSE]

\* One column of the 3x2 grid: slots 1..3 are axes[0..2, c] (fitness,
\* diversity, control), slot 4 is the twin axis ax3_r once created.
BlankColumn == <<BlankAxis, BlankAxis, BlankAxis, NoAxis>>

\* (mutant of Siblings) no axis shares its X axis with another.
SiblingsNotShared(col, i) == {i}

\* The axes that share their X axis with axis i of the column: sharex='col'
\* joins the three rows of a column, and twinx() joins the twin to ax3.
Siblings(col, i) == {j \in 1..4 : col[j].exists}

\* The union of the X data limits of the axes sharing X with axis i.
SharedXData(col, i) ==
    LET sib == {j \in Siblings(col, i) : col[j].xdata.has}
        los == {col[j].xdata.lo : j \in sib}
        his == {col[j].xdata.hi : j \in sib}
        mps == {col[j].xdata.minpos : j \in sib} \ {0}
    IN IF sib = {} THEN NoData
       ELSE [has |-> TRUE,
             lo |-> CHOOSE v \in los : \A w \in los : v <= w,
             hi |-> CHOOSE v \in his : \A w \in his : v >= w,
             minpos |-> IF mps = {} THEN 0
                        ELSE CHOOSE v \in mps : \A w \in mps : v <= w]

\* The largest power of ten (in hundredths: 1, 10, 100, ...) below v.
RECURSIVE DecadeBelow(_, _)
DecadeBelow(v, p) == IF p * 10 >= v THEN p ELSE DecadeBelow(v, p * 10)

\* The smallest power of ten above v.
RECURSIVE DecadeAbove(_, _)
DecadeAbove(v, p) == IF p > v THEN p ELSE DecadeAbove(v, p * 10)

\* matplotlib.transforms.nonsingular with expander 0.05, as the linear
\* locator applies it to a requested or autoscaled interval: an empty
\* interval at 0 becomes [-0.05, 0.05], elsewhere it grows by 5 percent.
LinearNonsingular(v0, v1) ==
    IF v0 # v1 THEN <<v0, v1>>
    ELSE IF v0 = 0 THEN <<-5, 5>>
    ELSE <<v0 - (5 * Abs(v0)) \div 100, v1 + (5 * Abs(v1)) \div 100>>

\* LogLocator.nonsingular on a positive interval: an empty interval is
\* widened to the enclosing decades.
LogNonsingular(v0, v1) ==
    IF v0 # v1 THEN <<v0, v1>>
    ELSE <<DecadeBelow(v0, 1), DecadeAbove(v1, 1)>>

\* The autoscaled X range for data limits d (margins left out).  With no
\* data the linear default is [0, 1]; a log axis with no positive data falls
\* back to [1, 10].
AutoViewX(scale, d) ==
    IF scale = "log"
    THEN IF ~d.has \/ d.hi <= 0 THEN <<100, 1000>>
         ELSE LogNonsingular(IF d.lo <= 0 THEN d.minpos ELSE d.lo, d.hi)
    ELSE IF ~d.has THEN <<0, 100>> ELSE LinearNonsingular(d.lo, d.hi)

\* ax.get_xlim(): the visible X range of axis i.
ViewX(col, i) ==
    IF col[i].xauto THEN AutoViewX(col[i].xscale, SharedXData(col, i))
    ELSE col[i].xlim

\* ax.get_ylim() (the Y scale is always linear, Y axes are not shared).
ViewY(col, i) ==
    IF col[i].yauto
    THEN IF ~col[i].ydata.has THEN <<0, 100>>
         ELSE LinearNonsingular(col[i].ydata.lo, col[i].ydata.hi)
    ELSE col[i].ylim

\* ax.text(0.5, 0.5, msg, ..., transform=ax.transAxes, color='red')
AxText(col, i, t) == [col EXCEPT ![i].texts = Append(@, t)]

\* ax.plot(xs, df[ycol], ...): one more line, wider data limits.  ys is the
\* sequence of Y values when the model carries them, <<>> otherwise.
AxPlot(col, i, xs, ys, line) ==
    [col EXCEPT ![i].lines = Append(@, line),
                ![i].xdata = ExtendData(@, xs),
                ![i].ydata = ExtendData(@, ys)]

\* ax.fill_between(xs, ...)
AxFillBetween(col, i, xs, band) ==
    [col EXCEPT ![i].fills = Append(@, band),
                ![i].xdata = ExtendData(@, xs)]

\* ax.axvline(x=r, color='red', linestyle='-', alpha=alp, linewidth=lw)
\* called once for each r of rs, in order: one more vertical line per call,
\* each of which also counts for the X data limits.
AxVLines(ax, rs, alp, lw) ==
    [ax EXCEPT !.vlines =
                   @ \o [n \in 1..Len(rs) |->
                            [x |-> rs[n], color |-> "red", alpha |-> alp, linewidth |-> lw]],
               !.xdata = ExtendData(@, rs)]

\* ax.set_xscale(value): matplotlib applies it to every axis sharing X.
SetXScale(col, i, value) ==
    [j \in 1..4 |->
        IF j \in Siblings(col, i) THEN [col[j] EXCEPT !.xscale = value] ELSE col[j]]

\* ax.set_xlim(left=..., right=...) (Axis._set_lim): on a log axis a
\* non-positive limit is ignored and the current one kept; an empty interval
\* is widened by the locator; autoscaling of X is switched off; the result is
\* propagated to every axis sharing X.
SetXLim(col, i, left, right) ==
    LET isLog == col[i].xscale = "log"
        old == ViewX(col, i)
        v0 == IF isLog /\ left <= 0 THEN old[1] ELSE left
        v1 == IF isLog /\ right <= 0 THEN old[2] ELSE right
        lim == IF isLog THEN LogNonsingular(v0, v1) ELSE LinearNonsingular(v0, v1)
    IN [j \in 1..4 |->
           IF j \in Siblings(col, i)
           THEN [col[j] EXCEPT !.xlim = lim, !.xauto = FALSE]
           ELSE col[j]]

\* ax.set_ylim(bottom, top): fixes the range and switches Y autoscaling off.
SetYLim(col, i, bottom, top) ==
    [col EXCEPT ![i].ylim = LinearNonsingular(bottom, top), ![i].yauto = FALSE]

\* ax3.twinx(): a new axis in slot 4 sharing X (scale and range) with axis i.
TwinX(col, i) ==
    [col EXCEPT ![4] = [BlankAxis EXCEPT !.xscale = col[i].xscale,
                                         !.xauto = col[i].xauto,
                                         !.xlim = col[i].xlim]]

\* ---------------------------------------------------------- plot_phase_data

\* The outcome of a step of the routine that may raise: the column as the
\* step left it, and whether the routine goes on.
Went(col) == [col |-> col, ok |-> TRUE]

Raised(col) == [col |-> col, ok |-> FALSE]

\* Generation indices as X coordinates.
XCoords(geracao) == [i \in 1..Len(geracao) |-> X(geracao[i])]

\* The error placeholder of the missing-file branch.
NotFoundText(filename) ==
    [msg |-> "Arquivo nao encontrado", file |-> filename,
     x |-> 50, y |-> 50, ha |-> "center", va |-> "center", color |-> "red"]

\* (mutant of PlaceholderLoop) the text is written on the first surface only.
PlaceholderFirstOnly(col, filename) == AxText(col, 1, NotFoundText(filename))

\* `for ax in ax_col: ax.text(...)` over the three surfaces passed in.
PlaceholderLoop(col, filename) ==
    AxText(AxText(AxText(col, 1, NotFoundText(filename)),
                  2, NotFoundText(filename)),
           3, NotFoundText(filename))

\* The message of `print(f"Erro critico ao ler {filename}: {e}")`.
ReadErrorMessage(filename) == [kind |-> "read_error", file |-> filename]

\* df[name] after r: KeyError unless the frame has the column.
Read(r, df, name) ==
    IF r.ok /\ name \notin df.cols THEN Raised(r.col) ELSE r

\* ax_col[i-1].plot(geracao, df[...], ...) after r.
PlotLine(r, i, xs, ys, line) ==
    IF r.ok THEN Went(AxPlot(r.col, i, xs, ys, line)) ELSE r

\* `ax1.fill_between(geracao, FitnessMedio - DesvioPadraoFit, ...)`
FitnessBand(r, df, xs) ==
    IF r.ok
    THEN IF "DesvioPadraoFit" \in df.cols
         THEN Went(AxFillBetween(r.col, 1, xs, "FitnessMedio +- DesvioPadraoFit"))
         ELSE Raised(r.col)
    ELSE r

\* ax1.set_title (the phase title and, on a second line, the chart's own),
\* set_ylabel, legend, grid
FitnessDecor(r, phase_title) ==
    IF r.ok
    THEN Went([r.col EXCEPT ![1].title = <<phase_title, "Evolucao do Fitness">>,
                            ![1].ylabel = "Fitness",
                            ![1].legend = <<"Melhor Individuo", "Media">>,
                            ![1].grid = TRUE])
    ELSE r

\* Chart 1 (fitness): two lines, the band, title, label, legend, grid.  A
\* df[...] of an absent column raises KeyError where it is evaluated.
FitnessChart(r, df, xs, phase_title) ==
    FitnessDecor(
        FitnessBand(
            PlotLine(Read(PlotLine(Read(r, df, "MelhorFitness"), 1, xs, <<>>,
                                   [y |-> "MelhorFitness", label |-> "Melhor Individuo"]),
                          df, "FitnessMedio"),
                     1, xs, <<>>, [y |-> "FitnessMedio", label |-> "Media"]),
            df, xs),
        phase_title)

\* (mutant of MarkerStyle) the threshold is met at 50 already.
MarkerStyleAtLeast(log, n) ==
    IF log \/ n >= ResetThreshold
    THEN <<LwThin, AlphaThin>>
    ELSE <<LwStrong, AlphaStrong>>

\* The marker style policy: <<linewidth, alpha>> for n reset rows.
MarkerStyle(log, n) ==
    IF log \/ n > ResetThreshold
    THEN <<LwThin, AlphaThin>>
    ELSE <<LwStrong, AlphaStrong>>

\* `for r in resets: ax2.axvline(x=r, ...)`
MarkerLoop(col, resets, lw, alp) ==
    [col EXCEPT ![2] = AxVLines(@, XCoords(resets), alp, lw)]

\* `if len(resets) > 0: ... for r in resets: ax2.axvline(...)`
DrawResetMarkers(col, resets, log) ==
    IF Len(resets) > 0
    THEN MarkerLoop(col, resets,
                    MarkerStyle(log, Len(resets))[1], MarkerStyle(log, Len(resets))[2])
    ELSE col

\* ax2.set_title, set_ylabel
DiversityLabels(r) ==
    IF r.ok
    THEN Went([r.col EXCEPT ![2].title = "Convergencia (Diversidade Genetica)",
                            ![2].ylabel = "Distancia Euclidiana"])
    ELSE r

\* The reset markers and ax2.grid.
ResetMarkers(r, resets, log) ==
    IF r.ok
    THEN Went([DrawResetMarkers(r.col, resets, log) EXCEPT ![2].grid = TRUE])
    ELSE r

\* Chart 2 (diversity): one line and the reset markers.
DiversityChart(r, df, xs, resets, log) ==
    ResetMarkers(
        DiversityLabels(
            PlotLine(Read(r, df, "DiversidadeGenetica"), 2, xs, <<>>,
                     [y |-> "DiversidadeGenetica", label |-> ""])),
        resets, log)

\* xlabel_text
XLabelText(log) ==
    IF log THEN "Geracoes (Escala Log)" ELSE "Geracoes (Escala Linear)"

\* ax3.set_ylabel, tick_params, set_xlabel(xlabel_text)
ControlLabels(r, log) ==
    IF r.ok
    THEN Went([r.col EXCEPT ![3].ylabel = "Mutacao (%)",
                            ![3].xlabel = XLabelText(log)])
    ELSE r

\* ax3_r = ax3.twinx()
Twin(r) == IF r.ok THEN Went(TwinX(r.col, 3)) ELSE r

\* (mutant of RepulsionLimits) the fixed Y range is set on the left axis.
RepulsionLimitsOnLeft(r) ==
    IF r.ok
    THEN Went(SetYLim([r.col EXCEPT ![4].ylabel = "Fator Repulsao"],
                      3, RepYBottom, RepYTop))
    ELSE r

\* ax3_r.set_ylabel, tick_params, set_ylim(0, 1.1)
RepulsionLimits(r) ==
    IF r.ok
    THEN Went(SetYLim([r.col EXCEPT ![4].ylabel = "Fator Repulsao"],
                      4, RepYBottom, RepYTop))
    ELSE r

\* The right (repulsion) axis: twinx, the line, the label, the fixed Y range.
RepulsionAxis(r, df, xs) ==
    RepulsionLimits(
        PlotLine(Read(Twin(r), df, "FatorRepulsao"), 4, xs, FatorRepulsao(df),
                 [y |-> "FatorRepulsao", label |-> "Repulsao"]))

\* The merged legend and ax3.grid.
ControlLegend(r) ==
    IF r.ok
    THEN Went([r.col EXCEPT ![3].legend = <<"Mutacao %", "Repulsao">>,
                            ![3].grid = TRUE])
    ELSE r

\* Chart 3 (control): mutation on the left axis, repulsion on the twin
\* axis, the X label, the merged legend, the grid.
ControlChart(r, df, xs, log) ==
    ControlLegend(
        RepulsionAxis(
            ControlLabels(
                PlotLine(Read(r, df, "TaxaMutacao"), 3, xs, <<>>,
                         [y |-> "TaxaMutacao", label |-> "Mutacao %"]),
                log),
            df, xs))

\* ax1.set_xscale, ax2.set_xscale, ax3.set_xscale
XScales(r, scale) ==
    IF r.ok
    THEN Went(SetXScale(SetXScale(SetXScale(r.col, 1, scale), 2, scale), 3, scale))
    ELSE r

\* max(geracao): ValueError on an empty sequence.
MaxGeracao(r, geracao) ==
    IF r.ok /\ Len(geracao) = 0 THEN Raised(r.col) ELSE r

\* ax3.set_xlim(left=..., right=max(geracao))
XLimits(r, left, geracao) ==
    IF r.ok THEN Went(SetXLim(r.col, 3, left, X(SeqMax(geracao)))) ELSE r

\* The scale logic: three set_xscale calls, then set_xlim on ax3 with
\* right=max(geracao), which raises after the set_xscale calls have run.
ScaleLogic(r, geracao, log) ==
    IF log
    THEN XLimits(MaxGeracao(XScales(r, "log"), geracao), LogLeft, geracao)
    ELSE XLimits(MaxGeracao(XScales(r, "linear"), geracao), LinearLeft, geracao)

\* What one call leaves behind: the column, how the call ended ("return" or
\* "raise"), which branch it took, and what it printed.
Outcome(col, exit, path, out) ==
    [col |-> col, exit |-> exit, path |-> path, out |-> out]

\* `resets = df[df['Evento'].str.contains('RESET', na=False)]['Geracao']`:
\* KeyError without the column, AttributeError when .str is not available.
EventoColumn(r, df) ==
    IF r.ok /\ ~("Evento" \in df.cols /\ StrAccessorOk(df)) THEN Raised(r.col) ELSE r

\* The body of plot_phase_data after read_csv succeeded: the column reads,
\* then the three charts and the scale logic, each continuing from what the
\* one before it left.
RenderFrame(col, df, phase_title, log) ==
    CHOOSE r \in
        {ScaleLogic(r3, Geracao(df), log) : r3 \in
            {ControlChart(r2, df, XCoords(Geracao(df)), log) : r2 \in
                {DiversityChart(r1, df, XCoords(Geracao(df)), Resets(df), log) : r1 \in
                    {FitnessChart(r0, df, XCoords(Geracao(df)), phase_title) : r0 \in
                        {EventoColumn(Read(Went(col), df, "Geracao"), df)}}}}} : TRUE

\* (mutant of Rendered) a fault inside the routine is swallowed.
RenderedSwallowsFault(r) == Outcome(r.col, "return", "rendered", <<>>)

\* How a call that got past read_csv ended.
Rendered(r) ==
    IF r.ok THEN Outcome(r.col, "return", "rendered", <<>>)
    ELSE Outcome(r.col, "raise", "raised", <<>>)

\* `if not os.path.exists(filename): for ax in ax_col: ax.text(...); return`
FileMissing(col, filename) ==
    Outcome(PlaceholderLoop(col, filename), "return", "notfound", <<>>)

\* (mutant of ReadCsvFailed) no handler: the read error leaves the call.
ReadCsvFailedPropagates(col, filename) == Outcome(col, "raise", "raised", <<>>)

\* `except Exception as e: print(...); return`
ReadCsvFailed(col, filename) ==
    Outcome(col, "return", "readerror", <<ReadErrorMessage(filename)>>)

\* plot_phase_data(ax_col, filename, phase_title) on the file found under
\* filename, with the module flag USE_LOG_SCALE = log.
PlotPhaseData(col, filename, phase_title, file, log) ==
    IF file.kind = "missing" THEN FileMissing(col, filename)
    ELSE IF file.kind = "unparseable" THEN ReadCsvFailed(col, filename)
    ELSE Rendered(RenderFrame(col, file, phase_title, log))

\* -------------------------------------------------------------------- driver

\* mode_str
ModeStr(log) == IF log THEN "Logaritmica" ELSE "Linear"

\* (mutant of FilenameOut) the name does not follow the flag.
FilenameOutFixed(log) == "dashboard_carro_solar_log.png"

\* filename_out
FilenameOut(log) ==
    IF log THEN "dashboard_carro_solar_log.png"
    ELSE "dashboard_carro_solar_linear.png"

SuccessMessage(name) == [kind |-> "saved", file |-> name]

VARIABLES
    USE_LOG_SCALE,  \* the module flag
    fs,             \* fs[c]: what is found under PhaseFile(c)
    axes,           \* axes[c]: column c of the grid
    pc,             \* the driver's position
    outcome,        \* outcome[c]: the branch call c took ("pending" before)
    stdout,         \* the messages printed
    suptitle,       \* the figure title ("" before fig.suptitle)
    layout,         \* whether tight_layout has run
    saved           \* the files written by savefig, in order

vars == <<USE_LOG_SCALE, fs, axes, pc, outcome, stdout, suptitle, layout, saved>>

\* The state after `fig, axes = plt.subplots(...)` and subplots_adjust.
Init ==
    /\ USE_LOG_SCALE \in BOOLEAN
    /\ fs \in FilePairs
    /\ axes = [c \in 1..2 |-> BlankColumn]
    /\ pc = "phase1"
    /\ outcome = [c \in 1..2 |-> "pending"]
    /\ stdout = <<>>
    /\ suptitle = ""
    /\ layout = FALSE
    /\ saved = <<>>

\* The position after call c returned.
AfterPhase(c) == IF c = 1 THEN "phase2" ELSE "suptitle"

\* `plot_phase_data(axes[:, c-1], PhaseFile(c), PhaseTitle(c))`; an
\* exception leaving the call ends the script (no handler in the driver).
CallPlotPhase(c) ==
    \E r \in {PlotPhaseData(axes[c], PhaseFile(c), PhaseTitle(c), fs[c], USE_LOG_SCALE)} :
        /\ axes' = [axes EXCEPT ![c] = r.col]
        /\ outcome' = [outcome EXCEPT ![c] = r.path]
        /\ stdout' = stdout \o r.out
        /\ pc' = IF r.exit = "raise" THEN "crashed" ELSE AfterPhase(c)
        /\ UNCHANGED <<USE_LOG_SCALE, fs, suptitle, layout, saved>>

PlotPhase1 == pc = "phase1" /\ CallPlotPhase(1)

PlotPhase2 == pc = "phase2" /\ CallPlotPhase(2)

\* `fig.suptitle(f'... (Escala {mode_str})', ...)`
SupTitle ==
    /\ pc = "suptitle"
    /\ suptitle' = ModeStr(USE_LOG_SCALE)
    /\ pc' = "layout"
    /\ UNCHANGED <<USE_LOG_SCALE, fs, axes, outcome, stdout, layout, saved>>

\* `plt.tight_layout(rect=[0, 0.03, 1, 0.97])`
TightLayout ==
    /\ pc = "layout"
    /\ layout' = TRUE
    /\ pc' = "save"
    /\ UNCHANGED <<USE_LOG_SCALE, fs, axes, outcome, stdout, suptitle, saved>>

\* `plt.savefig(filename_out, dpi=150)`
SaveFig ==
    /\ pc = "save"
    /\ saved' = Append(saved, FilenameOut(USE_LOG_SCALE))
    /\ pc' = "print"
    /\ UNCHANGED <<USE_LOG_SCALE, fs, axes, outcome, stdout, suptitle, layout>>

\* `print(f"Grafico salvo com sucesso: {filename_out}")`
PrintSuccess ==
    /\ pc = "print"
    /\ stdout' = Append(stdout, SuccessMessage(FilenameOut(USE_LOG_SCALE)))
    /\ pc' = "done"
    /\ UNCHANGED <<USE_LOG_SCALE, fs, axes, outcome, suptitle, layout, saved>>

Next ==
    \/ PlotPhase1
    \/ PlotPhase2
    \/ SupTitle
    \/ TightLayout
    \/ SaveFig
    \/ PrintSuccess

Spec == Init /\ [][Next]_vars

\* The position from which call c is made.
BeforePhase(c) == IF c = 1 THEN "phase1" ELSE "phase2"

\* ===================================================================== claims

\* The column a missing file must leave: one placeholder on each of the
\* three surfaces, everything else as plt.subplots created it.
PlaceholderOnly(c) ==
    [BlankAxis EXCEPT !.texts = <<NotFoundText(PhaseFile(c))>>]

\* C1.  When the phase file of a column is absent, the call leaves exactly
\* one 'not found' placeholder on each of the three surfaces of that column
\* and nothing else (no series, no markers, no scale or limit change, no twin
\* axis), prints nothing, returns to the driver, and leaves the other column
\* exactly as it was; the placeholders are still there in every later state.
C1_MissingFilePlaceholders ==
    /\ [][\A c \in 1..2 :
            (pc = BeforePhase(c) /\ fs[c].kind = "missing")
            => /\ axes'[c] = <<PlaceholderOnly(c), PlaceholderOnly(c),
                               PlaceholderOnly(c), NoAxis>>
               /\ axes'[3 - c] = axes[3 - c]
               /\ stdout' = stdout
               /\ pc' = AfterPhase(c)]_vars
    /\ [](\A c \in 1..2 :
            (fs[c].kind = "missing" /\ outcome[c] # "pending")
            => /\ outcome[c] = "notfound"
               /\ \A i \in 1..3 : axes[c][i] = PlaceholderOnly(c)
               /\ ~axes[c][4].exists)

\* C1 witness: phase 1 absent, phase 2 rendered, run finished.
C1_Witness ==
    /\ pc = "done"
    /\ fs[1].kind = "missing"
    /\ outcome[2] = "rendered"
    /\ Len(axes[1][2].texts) = 1

\* C2.  When the phase file exists and pd.read_csv raises, the call prints
\* exactly one diagnostic naming the file, draws nothing (the whole column
\* stays as created, the other column untouched) and returns, so that the
\* driver goes on to the next phase or to the title and save steps; the
\* column is still blank in every later state.
C2_ReadErrorBlank ==
    /\ [][\A c \in 1..2 :
            (pc = BeforePhase(c) /\ fs[c].kind = "unparseable")
            => /\ axes' = axes
               /\ stdout' = Append(stdout, ReadErrorMessage(PhaseFile(c)))
               /\ pc' = AfterPhase(c)]_vars
    /\ [](\A c \in 1..2 :
            (fs[c].kind = "unparseable" /\ outcome[c] # "pending")
            => /\ outcome[c] = "readerror"
               /\ axes[c] = BlankColumn)

\* C2 witness: phase 1 unparseable, the run went on and saved the image.
C2_Witness ==
    /\ pc = "done"
    /\ fs[1].kind = "unparseable"
    /\ stdout[1] = ReadErrorMessage("fase1.csv")
    /\ Len(saved) = 1

\* A parsed file on which the routine meets a fault it does not handle: an
\* expected column is absent, the Evento column holds no string at all, or
\* the file has no row.
Faulty(file) ==
    /\ file.kind = "parsed"
    /\ \/ ~(ExpectedColumns \subseteq file.cols)
       \/ \A i \in 1..Len(file.rows) : file.rows[i].Evento = NullCell

\* C3.  A fault other than file absence or read failure leaves the call as
\* an exception and ends the run there: the driver takes no further step,
\* no image is written and no success message is printed, whatever the
\* other phase did or would have done; and only such a fault ends a run so.
C3_FaultTerminatesRun ==
    /\ [][/\ pc # "crashed"
          /\ \A c \in 1..2 :
                (pc = BeforePhase(c) /\ Faulty(fs[c]))
                => (pc' = "crashed" /\ outcome'[c] = "raised")]_vars
    /\ [](pc = "crashed"
            => /\ saved = <<>>
               /\ suptitle = ""
               /\ \A k \in 1..Len(stdout) : stdout[k].kind # "saved"
               /\ \E c \in 1..2 : outcome[c] = "raised" /\ Faulty(fs[c]))

\* C3 witness: phase 1 rendered, phase 2 lacks a column, the run is dead.
C3_Witness ==
    /\ pc = "crashed"
    /\ outcome[1] = "rendered"
    /\ outcome[2] = "raised"
    /\ ~(ExpectedColumns \subseteq fs[2].cols)

\* ----------------------------------------------- what the claims speak about

\* The generation values present in a file, its largest, and the number of
\* rows whose Evento contains RESET (read off the file, not off the charts).
GenSet(file) == {file.rows[i].Geracao : i \in 1..Len(file.rows)}

LargestGen(file) == CHOOSE g \in GenSet(file) : \A h \in GenSet(file) : h <= g

SmallestGen(file) == CHOOSE g \in GenSet(file) : \A h \in GenSet(file) : g <= h

ResetRows(file) ==
    {i \in 1..Len(file.rows) : Contains(file.rows[i].Evento, ResetPattern)}

\* A file that follows the schema: every expected column, at least one row.
ValidFile(file) ==
    /\ file.kind = "parsed"
    /\ ExpectedColumns \subseteq file.cols
    /\ Len(file.rows) >= 1

\* The X lower bound the spec names for the active mode: 1 or 0.
ClaimedLeft == IF USE_LOG_SCALE THEN X(1) ELSE X(0)

ClaimedScale == IF USE_LOG_SCALE THEN "log" ELSE "linear"

\* C4.  (The claim as stated.)  Whenever each phase file is missing,
\* unparseable or valid, the run never dies: phase 2 starts only after call 1
\* has ended, every valid file's column is rendered, and a finished run has
\* written exactly one image and printed the success message naming it.
C4_AllCombinationsComplete ==
    (\A c \in 1..2 : fs[c].kind \in {"missing", "unparseable"} \/ ValidFile(fs[c]))
    => /\ pc # "crashed"
       /\ (outcome[2] # "pending" => outcome[1] # "pending")
       /\ \A c \in 1..2 :
            (ValidFile(fs[c]) /\ outcome[c] # "pending") => outcome[c] = "rendered"
       /\ (pc = "done"
            => /\ saved = <<FilenameOut(USE_LOG_SCALE)>>
               /\ stdout[Len(stdout)] = SuccessMessage(FilenameOut(USE_LOG_SCALE)))

\* C5.  Every reset marker on the diversity chart has the style of the
\* policy: width 0.5 and opacity 0.3 when the scale mode is logarithmic or
\* the file has more than 50 RESET rows, width 1.0 and opacity 0.6 otherwise
\* (so all markers of a column share one style).
C5_MarkerStylePolicy ==
    \A c \in 1..2 :
        \A k \in 1..Len(axes[c][2].vlines) :
            LET faint == USE_LOG_SCALE \/ Cardinality(ResetRows(fs[c])) > 50
                m == axes[c][2].vlines[k]
            IN /\ m.linewidth = IF faint THEN 50 ELSE 100
               /\ m.alpha = IF faint THEN 30 ELSE 60

\* C5 witness: linear mode, a rendered column with more than 50 markers, all
\* of them faint.
C5_Witness ==
    /\ ~USE_LOG_SCALE
    /\ outcome[1] = "rendered"
    /\ Len(axes[1][2].vlines) > 50
    /\ axes[1][2].vlines[1].alpha = 30

\* C6.  (The claim as stated, for files that follow the schema.)  Once the
\* call on a file that parses has ended, the column is rendered and the
\* diversity chart holds exactly one marker per RESET row, at its Geracao,
\* and none elsewhere; with no RESET row it holds no marker.
C6_OneMarkerPerResetRow ==
    \A c \in 1..2 :
        (ValidFile(fs[c]) /\ outcome[c] # "pending")
        => /\ outcome[c] = "rendered"
           /\ Len(axes[c][2].vlines) = Cardinality(ResetRows(fs[c]))
           /\ \A g \in GenSet(fs[c]) :
                Cardinality({k \in 1..Len(axes[c][2].vlines) :
                                axes[c][2].vlines[k].x = X(g)})
                = Cardinality({i \in ResetRows(fs[c]) : fs[c].rows[i].Geracao = g})

\* C7.  (The claim as stated.)  After a successful call the three charts of
\* the column have the scale of the flag and the same visible X range, from
\* 1 (log) or 0 (linear) to the largest Geracao of the file.
C7_UniformScaleAndDomain ==
    \A c \in 1..2 :
        outcome[c] = "rendered"
        => \A i \in 1..3 :
              /\ axes[c][i].xscale = ClaimedScale
              /\ ViewX(axes[c], i) = <<ClaimedLeft, X(LargestGen(fs[c]))>>

\* C7 as amended.  The same, for files whose largest Geracao lies above the
\* lower bound of the mode (above 1 in log mode, above 0 in linear mode);
\* the scale is uniform in every case.
C7_UniformScaleAndDomain_Amended ==
    \A c \in 1..2 :
        outcome[c] = "rendered"
        => \A i \in 1..3 :
              /\ axes[c][i].xscale = ClaimedScale
              /\ ViewX(axes[c], i) = ViewX(axes[c], 3)
              /\ X(LargestGen(fs[c])) > ClaimedLeft
                    => ViewX(axes[c], i) = <<ClaimedLeft, X(LargestGen(fs[c]))>>

\* C7 witness: log mode, a rendered column with generations up to 2 at
\* least, whose fitness chart shows [1, max].
C7_Witness ==
    /\ USE_LOG_SCALE
    /\ outcome[2] = "rendered"
    /\ LargestGen(fs[2]) >= 2
    /\ ViewX(axes[2], 1) = <<X(1), X(LargestGen(fs[2]))>>

C10_RepulsionYDomain ==
    \A c \in 1..2 :
        outcome[c] = "rendered"
        => /\ axes[c][4].exists
           /\ ViewY(axes[c], 4) = <<0, 110>>

\* C10 witness: a finished run whose rendered column has repulsion data
\* below 0 and above 1.1.
C10_Witness ==
    /\ pc = "done"
    /\ outcome[1] = "rendered"
    /\ axes[1][4].ydata.lo < 0
    /\ axes[1][4].ydata.hi > 110
    /\ ViewY(axes[1], 4) = <<0, 110>>

====
